---- MODULE Spec2Model ----
(***************************************************************************)
(* Model of mutual_fund_tax_analyzer.py: the row scan of parse_excel_data  *)
(* (fund / folio context, record building), the field parsers parse_date   *)
(* and parse_currency, the partition of analyze_transactions and the       *)
(* control flow of main.                                                   *)
(*                                                                         *)
(* A text is a sequence of tokens.  A token is one character ("0".."9",    *)
(* " ", ",", ".", "-", "/", "]", "(", ")", the double quote, "Rs" for the  *)
(* rupee sign) or an unbreakable word ("[ISIN:", "Folio", "No:", month     *)
(* names, other words).  A cell of the sheet is NaN or a text, which is    *)
(* what str(cell) gives.                                                   *)
(***************************************************************************)
EXTENDS Integers, Sequences, FiniteSets, TLC

\* ------------------------------------------------------------------ text

\* pandas' missing cell; pd.notna(c) is c # NaN
NaN == <<"<NaN>">>

\* Python's None for a text valued variable (current_fund, current_folio)
None == <<"<None>">>

\* Python's None / pandas' NaT for a date valued field
NoDate == [y |-> 0, m |-> 0, d |-> 0]

QUOTE == "\""

RUPEE == "Rs"

Digits == {"0", "1", "2", "3", "4", "5", "6", "7", "8", "9"}

DigitVal(c) ==
  CASE c = "0" -> 0 [] c = "1" -> 1 [] c = "2" -> 2 [] c = "3" -> 3
    [] c = "4" -> 4 [] c = "5" -> 5 [] c = "6" -> 6 [] c = "7" -> 7
    [] c = "8" -> 8 [] c = "9" -> 9

\* str.isdigit(): non-empty and every character a digit
IsDigitStr(s) == Len(s) > 0 /\ \A i \in 1..Len(s) : s[i] \in Digits

\* int(s) of an all-digit text
RECURSIVE IntOf(_)
IntOf(s) ==
  IF s = <<>> THEN 0
  ELSE 10 * IntOf(SubSeq(s, 1, Len(s) - 1)) + DigitVal(s[Len(s)])

\* str.strip(): leading and trailing whitespace removed
RECURSIVE LStrip(_)
LStrip(s) == IF s # <<>> /\ Head(s) = " " THEN LStrip(Tail(s)) ELSE s

RECURSIVE RStrip(_)
RStrip(s) ==
  IF s # <<>> /\ s[Len(s)] = " " THEN RStrip(SubSeq(s, 1, Len(s) - 1)) ELSE s

Strip(s) == RStrip(LStrip(s))

\* str.strip(chars) for a single character
RECURSIVE LStripChar(_, _)
LStripChar(s, c) == IF s # <<>> /\ Head(s) = c THEN LStripChar(Tail(s), c) ELSE s

RECURSIVE RStripChar(_, _)
RStripChar(s, c) ==
  IF s # <<>> /\ s[Len(s)] = c THEN RStripChar(SubSeq(s, 1, Len(s) - 1), c) ELSE s

StripChar(s, c) == RStripChar(LStripChar(s, c), c)

\* str.replace(c, ''): every occurrence of one character removed
Remove(s, c) == SelectSeq(s, LAMBDA t : t # c)

\* whether pat occurs in s at position i
MatchAt(s, pat, i) ==
  /\ i + Len(pat) - 1 <= Len(s)
  /\ \A k \in 1..Len(pat) : s[i + k - 1] = pat[k]

\* pat in s
Contains(s, pat) == \E i \in 1..Len(s) : MatchAt(s, pat, i)

\* position of the first occurrence of pat in s, 0 when there is none
Find(s, pat) ==
  IF Contains(s, pat)
  THEN CHOOSE i \in 1..Len(s) :
         MatchAt(s, pat, i) /\ \A j \in 1..(i - 1) : ~MatchAt(s, pat, j)
  ELSE 0

\* s.split(pat)[0]: the text before the first occurrence of pat
SplitHead(s, pat) ==
  IF Contains(s, pat) THEN SubSeq(s, 1, Find(s, pat) - 1) ELSE s

\* the text after the first occurrence of pat (pat occurs in s)
AfterFirst(s, pat) == SubSeq(s, Find(s, pat) + Len(pat), Len(s))

\* s.split(pat)[1]: the text between the first and the second occurrence
SplitSecond(s, pat) == SplitHead(AfterFirst(s, pat), pat)

\* ' '.join(parts)
RECURSIVE Join(_)
Join(parts) ==
  IF parts = <<>> THEN <<>>
  ELSE IF Len(parts) = 1 THEN parts[1]
  ELSE parts[1] \o <<" ">> \o Join(Tail(parts))

\* s.split(sep) for a single character: the parts between the separators
RECURSIVE SplitOn(_, _)
SplitOn(s, sep) ==
  IF \E i \in 1..Len(s) : s[i] = sep
  THEN LET i == CHOOSE i \in 1..Len(s) :
                  s[i] = sep /\ \A j \in 1..(i - 1) : s[j] # sep
       IN <<SubSeq(s, 1, i - 1)>> \o SplitOn(SubSeq(s, i + 1, Len(s)), sep)
  ELSE <<s>>

\* ------------------------------------------------------ datetime.strptime

\* the names %b accepts, by month number
MonthAbbr ==
  <<"Jan", "Feb", "Mar", "Apr", "May", "Jun",
    "Jul", "Aug", "Sep", "Oct", "Nov", "Dec">>

\* the names %B accepts, by month number
MonthFull ==
  <<"January", "February", "March", "April", "May", "June",
    "July", "August", "September", "October", "November", "December">>

\* the month number a name stands for in a table, 0 when it is not in it
MonthIndex(tok, names) ==
  IF \E i \in 1..Len(names) : names[i] = tok
  THEN CHOOSE i \in 1..Len(names) : names[i] = tok
  ELSE 0

\* %d: 3[0-1] | [1-2]\d | 0[1-9] | [1-9] | ' '[1-9]; 0 when the text is no day
DayField(t) ==
  IF Len(t) = 1 /\ t[1] \in Digits \ {"0"} THEN DigitVal(t[1])
  ELSE IF Len(t) = 2 /\ t[1] = " " /\ t[2] \in Digits \ {"0"} THEN DigitVal(t[2])
  ELSE IF Len(t) = 2 /\ IsDigitStr(t) /\ IntOf(t) \in 1..31 THEN IntOf(t)
  ELSE 0

\* %m: 1[0-2] | 0[1-9] | [1-9]; 0 when the text is no month
MonthField(t) ==
  IF Len(t) = 1 /\ t[1] \in Digits \ {"0"} THEN DigitVal(t[1])
  ELSE IF Len(t) = 2 /\ IsDigitStr(t) /\ IntOf(t) \in 1..12 THEN IntOf(t)
  ELSE 0

\* %Y: exactly four digits; -1 when the text is no year
YearField(t) == IF Len(t) = 4 /\ IsDigitStr(t) THEN IntOf(t) ELSE -1

IsLeap(y) == y % 4 = 0 /\ (y % 100 # 0 \/ y % 400 = 0)

DaysInMonth(y, m) ==
  IF m = 2 THEN (IF IsLeap(y) THEN 29 ELSE 28)
  ELSE IF m \in {4, 6, 9, 11} THEN 30 ELSE 31

\* datetime(y, m, d), NoDate where the constructor raises ValueError
MkDate(y, m, d) ==
  IF y >= 1 /\ m \in 1..12 /\ d >= 1 /\ d <= DaysInMonth(y, m)
  THEN [y |-> y, m |-> m, d |-> d]
  ELSE NoDate

\* "<name>\s+%d,\s+%Y" with the month name looked up in names
StrptimeNamed(s, names) ==
  IF s = <<>> \/ MonthIndex(s[1], names) = 0 THEN NoDate
  ELSE LET rest == Tail(s)
           parts == SplitOn(LStrip(rest), ",")
       IN IF rest = <<>> \/ rest[1] # " " \/ Len(parts) # 2 THEN NoDate
          ELSE IF parts[2] = <<>> \/ parts[2][1] # " " THEN NoDate
          ELSE MkDate(YearField(LStrip(parts[2])),
                      MonthIndex(s[1], names),
                      DayField(parts[1]))

\* three numeric fields separated by sep; yearFirst: %Y sep %m sep %d
StrptimeNumeric(s, sep, yearFirst) ==
  LET parts == SplitOn(s, sep)
  IN IF Len(parts) # 3 THEN NoDate
     ELSE IF yearFirst
          THEN MkDate(YearField(parts[1]), MonthField(parts[2]), DayField(parts[3]))
          ELSE MkDate(YearField(parts[3]), MonthField(parts[2]), DayField(parts[1]))

\* datetime.strptime(s, fmt); NoDate stands for ValueError
Strptime(s, fmt) ==
  CASE fmt = "%b %d, %Y" -> StrptimeNamed(s, MonthAbbr)
    [] fmt = "%B %d, %Y" -> StrptimeNamed(s, MonthFull)
    [] fmt = "%d/%m/%Y" -> StrptimeNumeric(s, "/", FALSE)
    [] fmt = "%Y-%m-%d" -> StrptimeNumeric(s, "-", TRUE)
    [] fmt = "%d-%m-%Y" -> StrptimeNumeric(s, "-", FALSE)

\* ------------------------------------------------------------ parse_date

\* formats with the full month name tried before the abbreviated one
formats_FullMonthFirst ==
  <<"%B %d, %Y", "%b %d, %Y", "%d/%m/%Y", "%Y-%m-%d", "%d-%m-%Y">>

formats == <<"%b %d, %Y", "%B %d, %Y", "%d/%m/%Y", "%Y-%m-%d", "%d-%m-%Y">>

\* the early return of parse_date: empty text or the "-" placeholder
DateIsBlank(text) == text = <<>> \/ Strip(text) = <<"-">>

\* date_str.strip().strip('"')
DateClean(text) == StripChar(Strip(text), QUOTE)

\* the for loop of parse_date from format number i on: the value returned
\* and the format fmt the loop was at, "" when the loop ran out
RECURSIVE TryFormats(_, _)
TryFormats(s, i) ==
  IF i > Len(formats) THEN [value |-> NoDate, fmt |-> ""]
  ELSE IF Strptime(s, formats[i]) # NoDate
  THEN [value |-> Strptime(s, formats[i]), fmt |-> formats[i]]
  ELSE TryFormats(s, i + 1)

parse_date(text) ==
  IF DateIsBlank(text) THEN NoDate ELSE TryFormats(DateClean(text), 1).value

\* whether parse_date prints "Warning: Could not parse date"
parse_date_warns(text) ==
  ~DateIsBlank(text) /\ TryFormats(DateClean(text), 1).value = NoDate

\* ------------------------------------------------------- float(), currency

\* a float: mant / 10^exp, trailing zeros of the fraction dropped
Zero == [mant |-> 0, exp |-> 0]

\* float() raised ValueError
FloatError == [mant |-> 0, exp |-> -1]

RECURSIVE DropTrailingZeros(_)
DropTrailingZeros(s) ==
  IF s # <<>> /\ s[Len(s)] = "0" THEN DropTrailingZeros(SubSeq(s, 1, Len(s) - 1))
  ELSE s

\* an unsigned decimal literal: digits, at most one point, at least one digit
UnsignedFloat(s) ==
  LET parts == SplitOn(s, ".")
      ip == parts[1]
      fp == IF Len(parts) = 2 THEN parts[2] ELSE <<>>
      frac == DropTrailingZeros(fp)
  IN IF Len(parts) > 2 THEN FloatError
     ELSE IF ip \o fp = <<>> \/ ~(\A i \in 1..Len(ip \o fp) : (ip \o fp)[i] \in Digits)
     THEN FloatError
     ELSE [mant |-> IntOf(ip \o frac), exp |-> Len(frac)]

\* float(s): surrounding whitespace and one leading sign allowed
Float(s) ==
  LET t == Strip(s)
  IN IF t # <<>> /\ t[1] = "-"
     THEN LET u == UnsignedFloat(Tail(t))
          IN IF u = FloatError THEN FloatError
             ELSE [mant |-> 0 - u.mant, exp |-> u.exp]
     ELSE UnsignedFloat(t)

parse_currency(currency_str) ==
  IF currency_str = <<>> \/ Strip(currency_str) \in {<<"-">>, <<>>} THEN Zero
  ELSE LET cleaned == Strip(Remove(Remove(Remove(currency_str, RUPEE), ","), QUOTE))
       IN IF Float(cleaned) = FloatError THEN Zero ELSE Float(cleaned)

\* float addition on the mant / 10^exp form (pandas' column sum)
RECURSIVE Pow10(_)
Pow10(n) == IF n <= 0 THEN 1 ELSE 10 * Pow10(n - 1)

RECURSIVE Normalize(_)
Normalize(f) ==
  IF f.exp > 0 /\ f.mant % 10 = 0
  THEN Normalize([mant |-> f.mant \div 10, exp |-> f.exp - 1])
  ELSE f

AddF(a, b) ==
  LET e == IF a.exp >= b.exp THEN a.exp ELSE b.exp
  IN Normalize([mant |-> a.mant * Pow10(e - a.exp) + b.mant * Pow10(e - b.exp),
                exp |-> e])

\* ------------------------------------------------------------ the sheet

\* the texts found in the cells of the modelled sheets
T_FundA == <<"Fund", " ", "A", " ", "[ISIN:", "X", "]", " ", "(", "G", ")">>
T_FundB_Left == <<"B", " ", "[ISIN:", "X", "]">>
T_FundB_Right == <<"(", "G", ")">>
T_FundC_Folio ==
  <<"C", " ", "[ISIN:", "X", "]", " ", "(", "G", ")", " ",
    "Folio", " ", "No:", " ", "7">>
T_Folio999 == <<"Folio", " ", "No:", " ", "9", "9", "9">>
T_Folio8 == <<"Folio", " ", "No:", "8", " ", "Folio", " ", "No:", "5">>
T_Total == <<"Total">>
T_Aug09_2023 == <<"Aug", " ", "0", "9", ",", " ", "2", "0", "2", "3">>
T_Jul01_2024 == <<"Jul", " ", "0", "1", ",", " ", "2", "0", "2", "4">>
T_01_08_2024 == <<"0", "1", "/", "0", "8", "/", "2", "0", "2", "4">>
T_2024_07_23 == <<"2", "0", "2", "4", "-", "0", "7", "-", "2", "3">>
T_22_07_2024 == <<QUOTE, "2", "2", "-", "0", "7", "-", "2", "0", "2", "4", QUOTE>>
T_13_13_2023 == <<"1", "3", "/", "1", "3", "/", "2", "0", "2", "3">>
T_Dash == <<"-">>
T_Blank == <<" ">>
T_nan == <<"nan">>
T_abc == <<"abc">>
T_1 == <<"1">>
T_2 == <<" ", "2">>
T_10_5 == <<"1", "0", ".", "5">>
T_1_234_5 == <<"1", ",", "2", "3", "4", ".", "5">>
T_12_0 == <<"1", "2", ".", "0">>
T_Rs1000 == <<RUPEE, "1", ",", "0", "0", "0", ".", "0", "0">>
T_Rs1200 == <<RUPEE, "1", ",", "2", "0", "0">>
T_Rs200 == <<RUPEE, "2", "0", "0">>

\* the widest row layout of the export: cells 0..12
NCols == 13

\* a row of NCols cells: cells 0..4, 5, 8..12 given, cells 6 and 7 missing
MkRow(c0, c1, c2, c3, c4, c5, c8, c9, c10, c11, c12) ==
  <<c0, c1, c2, c3, c4, c5, NaN, NaN, c8, c9, c10, c11, c12>>

\* header and noise rows
R_FundA == MkRow(T_FundA, NaN, NaN, NaN, NaN, NaN, NaN, NaN, NaN, NaN, NaN)
R_FundB == MkRow(T_FundB_Left, T_FundB_Right, NaN, NaN, NaN, NaN, NaN, NaN, NaN, NaN, NaN)
R_FundC ==
  MkRow(T_1, T_10_5, T_Aug09_2023, T_Rs1000, T_12_0, T_FundC_Folio,
        T_Jul01_2024, T_Rs1200, T_12_0, T_Rs200, T_Dash)
R_Folio999 == MkRow(T_Folio999, NaN, NaN, NaN, NaN, NaN, NaN, NaN, NaN, NaN, NaN)
R_Folio8 ==
  MkRow(T_2, T_10_5, T_Aug09_2023, T_Rs1000, T_12_0, T_Folio8,
        T_01_08_2024, T_Rs1200, T_12_0, T_Dash, T_Rs200)
R_Total == MkRow(T_Total, T_10_5, T_Aug09_2023, NaN, NaN, NaN, NaN, NaN, NaN, NaN, NaN)
R_Empty == MkRow(NaN, NaN, NaN, NaN, NaN, NaN, NaN, NaN, NaN, NaN, NaN)

\* transaction rows: redeemed before, after and on the cutover, not redeemed
R_Before ==
  MkRow(T_1, T_10_5, T_Aug09_2023, T_Rs1000, T_12_0, NaN,
        T_Jul01_2024, T_Rs1200, T_12_0, T_Rs200, T_Dash)
R_After ==
  MkRow(T_2, T_1_234_5, T_Aug09_2023, T_Rs1000, T_12_0, NaN,
        T_01_08_2024, T_Rs1200, T_12_0, T_Dash, T_Rs200)
R_Cutover ==
  MkRow(T_1, T_10_5, T_22_07_2024, T_Rs1000, T_12_0, NaN,
        T_2024_07_23, T_Rs1200, T_12_0, T_Rs200, T_Rs200)
R_DayBefore ==
  MkRow(T_2, NaN, T_Aug09_2023, T_Rs200, NaN, NaN,
        T_22_07_2024, T_Rs1000, NaN, NaN, T_Rs200)
R_Unredeemed ==
  MkRow(T_1, T_10_5, T_Aug09_2023, T_Rs1000, T_12_0, NaN,
        T_Dash, T_Dash, NaN, T_Rs200, NaN)
R_Holding ==
  MkRow(T_2, T_Blank, T_Aug09_2023, T_Rs1000, T_Blank, NaN,
        T_Blank, T_Rs1200, T_Blank, NaN, T_Rs200)
R_BadRedemptionDate ==
  MkRow(T_1, T_10_5, T_Aug09_2023, T_Rs1000, T_12_0, NaN,
        T_13_13_2023, T_Rs1200, T_12_0, T_Rs200, T_Dash)

\* digit-led rows without a purchase date
R_NoDateDash ==
  MkRow(T_1, T_10_5, T_Dash, T_Rs1000, T_12_0, NaN,
        T_Jul01_2024, T_Rs1200, T_12_0, T_Rs200, T_Dash)
R_NoDateMissing ==
  MkRow(T_1, T_10_5, NaN, T_Rs1000, T_12_0, NaN,
        T_Jul01_2024, T_Rs1200, T_12_0, T_Rs200, T_Dash)
R_NoDateBlank ==
  MkRow(T_1, T_10_5, T_Blank, T_Rs1000, T_12_0, NaN,
        T_Jul01_2024, T_Rs1200, T_12_0, T_Rs200, T_Dash)
R_NoDateNan ==
  MkRow(T_1, T_10_5, T_nan, T_Rs1000, T_12_0, NaN,
        T_Jul01_2024, T_Rs1200, T_12_0, T_Rs200, T_Dash)
R_NoDateBad ==
  MkRow(T_1, T_10_5, T_13_13_2023, T_Rs1000, T_12_0, NaN,
        T_Jul01_2024, T_Rs1200, T_12_0, T_Rs200, T_Dash)

\* digit-led, dated rows with a secondary field that is no number
R_BadUnits ==
  MkRow(T_1, T_abc, T_Aug09_2023, T_Rs1000, T_12_0, NaN,
        T_Jul01_2024, T_Rs1200, T_12_0, T_Rs200, T_Dash)
R_BadPurchaseNav ==
  MkRow(T_1, T_10_5, T_Aug09_2023, T_Rs1000, T_1_234_5, NaN,
        T_Jul01_2024, T_Rs1200, T_12_0, T_Rs200, T_Dash)
R_BadRedemptionNav ==
  MkRow(T_1, T_10_5, T_Aug09_2023, T_Rs1000, T_12_0, NaN,
        T_Jul01_2024, T_Rs1200, T_abc, T_Rs200, T_Dash)
R_BadCurrency ==
  MkRow(T_1, T_10_5, T_Aug09_2023, T_abc, T_12_0, NaN,
        NaN, T_abc, T_12_0, T_abc, T_abc)

HeaderRows == {R_FundA, R_FundB, R_FundC, R_Folio999, R_Folio8, R_Total}

DatedRows == {R_Before, R_After, R_Cutover, R_Unredeemed}

SparseRows == {R_FundA, R_Empty, R_Before, R_DayBefore, R_Holding, R_BadRedemptionDate}

UndatedRows == {R_NoDateDash, R_NoDateMissing, R_NoDateBlank, R_NoDateNan, R_NoDateBad}

BadFieldRows == {R_BadUnits, R_BadPurchaseNav, R_BadRedemptionNav, R_BadCurrency}

\* The modelled sheets are of two kinds.  A "statement" is the export as it
\* is laid out, NCols columns wide: fund and folio lines, noise, transaction
\* rows redeemed or not, a row without purchase date.  A "fragment" is a short
\* sheet of any width from 1 to NCols: a fund line, an empty row, transaction
\* rows with missing and blank cells, without purchase date, with cells that
\* are no numbers.

\* the most rows of a statement
MaxRows == 3

\* the most rows of a fragment
MaxFragmentRows == 2

SheetKinds == {"statement", "fragment"}

MaxRowsOf(kind) == IF kind = "statement" THEN MaxRows ELSE MaxFragmentRows

\* the column counts of the sheets of a kind
Widths(kind) == IF kind = "statement" THEN {NCols} ELSE 1..NCols

StatementRows == HeaderRows \cup DatedRows \cup {R_NoDateDash}

FragmentRows == SparseRows \cup UndatedRows \cup BadFieldRows

\* a catalogue row as it is in a sheet of w columns (cells beyond NCols missing)
RowOfWidth(r, w) == [k \in 1..w |-> IF k <= Len(r) THEN r[k] ELSE NaN]

\* the rows a sheet of a kind with w columns is made of
SheetRows(kind, w) ==
  {RowOfWidth(r, w) : r \in IF kind = "statement" THEN StatementRows ELSE FragmentRows}

\* -------------------------------------------------------------- the state

VARIABLES
  excel_file,       \* the kind of sheet the file 2.xlsx holds
  pc,               \* where main is
  width,            \* number of columns of the sheet (len(row))
  df,               \* the rows of the sheet iterated so far
  current_fund,     \* parse_excel_data: fund of the last fund line
  current_folio,    \* parse_excel_data: folio of the last folio line
  transactions,     \* parse_excel_data: the list of transaction dicts
  parsed,           \* what read_excel_file returned
  transactions_df,  \* self.transactions_df
  before_july_23,   \* self.before_july_23
  after_july_23,    \* self.after_july_23
  printed,          \* the summary report print_analysis_summary printed
  files,            \* the files export_reports wrote
  result,           \* what main returned
  console,          \* the kinds of message printed so far
  date_pc,          \* a call of parse_date on its own: where it is
  date_str,         \* its argument
  date_ret,         \* the value it returned
  date_fmt          \* the format its loop was at when it returned

\* the state of a run of main
run_vars ==
  <<excel_file, pc, width, df, current_fund, current_folio, transactions, parsed,
    transactions_df, before_july_23, after_july_23, printed, files, result>>

\* the state of a call of parse_date on its own
date_vars == <<date_pc, date_str, date_ret, date_fmt>>

vars == <<run_vars, date_vars, console>>

\* a DataFrame: None, or rows carrying their index label; frame[mask] is
\* Frame(SelectSeq(frame.rows, mask)), the index labels kept
NoFrame == [isNone |-> TRUE, rows |-> <<>>]

Frame(rows) == [isNone |-> FALSE, rows |-> rows]

\* pd.DataFrame(list of dicts): index 0..n-1
DataFrame(dicts) ==
  Frame([i \in 1..Len(dicts) |-> [index |-> i - 1, rec |-> dicts[i]]])

\* no report printed yet
NoReport == [isNone |-> TRUE]

\* -------------------------------------------------- parse_excel_data: a row

\* row.iloc[k]
Cell(row, k) == row[k + 1]

\* pd.notna(value)
notna(value) == value # NaN

\* ' '.join([str(val) for val in row.values if pd.notna(val)])
row_str(row) == Join(SelectSeq(row, notna))

ISIN_MARK == <<"[ISIN:">>

PAREN_MARK == <<"]", " ", "(">>

FOLIO_MARK == <<"Folio", " ", "No:">>

\* '[ISIN:' in row_str and '] (' in row_str
IsFundLine(rs) == Contains(rs, ISIN_MARK) /\ Contains(rs, PAREN_MARK)

\* 'Folio No:' in row_str
IsFolioLine(rs) == Contains(rs, FOLIO_MARK)

\* FundNameOf without the strip()
FundNameOf_Untrimmed(rs) == SplitHead(rs, ISIN_MARK)

\* row_str.split('[ISIN:')[0].strip()
FundNameOf(rs) == Strip(SplitHead(rs, ISIN_MARK))

\* row_str.split('Folio No:')[1].strip()
FolioOf(rs) == Strip(SplitSecond(rs, FOLIO_MARK))

\* float(text) if the cell is present and not blank, else 0
FloatCell(c, text) == IF notna(c) /\ Strip(c) # <<>> THEN Float(text) ELSE Zero

\* the outcomes of the try block of one row
Raise(e) == [exc |-> e, recs |-> <<>>]

NoRecord == [exc |-> "none", recs |-> <<>>]

Emit(rec) == [exc |-> "none", recs |-> <<rec>>]

\* the fields read at lines 108-127, each guarded by len(row) > k
purchase_value_of(row) ==
  IF Len(row) > 3 /\ notna(Cell(row, 3)) THEN parse_currency(Cell(row, 3)) ELSE Zero

purchase_nav_of(row) ==
  IF Len(row) > 4 THEN FloatCell(Cell(row, 4), Cell(row, 4)) ELSE Zero

redemption_date_of(row) ==
  IF Len(row) > 8 /\ notna(Cell(row, 8)) /\ Strip(Cell(row, 8)) # <<>>
  THEN parse_date(Strip(Cell(row, 8)))
  ELSE NoDate

redemption_value_of(row) ==
  IF Len(row) > 9 /\ notna(Cell(row, 9)) THEN parse_currency(Cell(row, 9)) ELSE Zero

redemption_nav_of(row) ==
  IF Len(row) > 10 THEN FloatCell(Cell(row, 10), Cell(row, 10)) ELSE Zero

stcg_of(row) ==
  IF Len(row) > 11 /\ notna(Cell(row, 11)) THEN parse_currency(Cell(row, 11)) ELSE Zero

ltcg_of(row) ==
  IF Len(row) > 12 /\ notna(Cell(row, 12)) THEN parse_currency(Cell(row, 12)) ELSE Zero

\* purchase_date_str and purchase_date, lines 101-102
purchase_date_of(row) ==
  LET purchase_date_str == IF notna(Cell(row, 2)) THEN Strip(Cell(row, 2)) ELSE <<>>
  IN IF purchase_date_str # <<>> /\ purchase_date_str # <<"nan">>
     THEN parse_date(purchase_date_str)
     ELSE NoDate

\* units, line 98
units_of(row) == FloatCell(Cell(row, 1), Remove(Cell(row, 1), ","))

\* DiscardsRow without the continue: the row goes on with a null purchase date
DiscardsRow_Never(purchase_date) == FALSE

\* if purchase_date is None: continue, lines 104-105
DiscardsRow(purchase_date) == purchase_date = NoDate

\* the try block, lines 91-144, statement by statement
TryRow(row, fund, folio) ==
  IF Len(row) < 1 THEN Raise("IndexError")
  ELSE IF ~(notna(Cell(row, 0)) /\ IsDigitStr(Strip(Cell(row, 0)))) THEN NoRecord
  ELSE IF Len(row) < 2 THEN Raise("IndexError")
  ELSE IF units_of(row) = FloatError THEN Raise("ValueError")
  ELSE IF Len(row) < 3 THEN Raise("IndexError")
  ELSE IF DiscardsRow(purchase_date_of(row)) THEN NoRecord
  ELSE IF purchase_nav_of(row) = FloatError THEN Raise("ValueError")
  ELSE IF redemption_nav_of(row) = FloatError THEN Raise("ValueError")
  ELSE Emit([fund_name |-> fund,
             folio_number |-> folio,
             transaction_number |-> IntOf(Strip(Cell(row, 0))),
             units |-> units_of(row),
             purchase_date |-> purchase_date_of(row),
             purchase_value |-> purchase_value_of(row),
             purchase_nav |-> purchase_nav_of(row),
             redemption_date |-> redemption_date_of(row),
             redemption_value |-> redemption_value_of(row),
             redemption_nav |-> redemption_nav_of(row),
             stcg |-> stcg_of(row),
             ltcg |-> ltcg_of(row)])

\* whether the try block of a row prints the warning of parse_date: at the
\* purchase date (line 102), or, once that and purchase_nav are read, at the
\* redemption date (line 119)
RowWarns(row) ==
  /\ Len(row) >= 3
  /\ notna(Cell(row, 0)) /\ IsDigitStr(Strip(Cell(row, 0)))
  /\ units_of(row) # FloatError
  /\ \/ /\ notna(Cell(row, 2))
        /\ Strip(Cell(row, 2)) \notin {<<>>, <<"nan">>}
        /\ parse_date_warns(Strip(Cell(row, 2)))
     \/ /\ ~DiscardsRow(purchase_date_of(row))
        /\ purchase_nav_of(row) # FloatError
        /\ Len(row) > 8 /\ notna(Cell(row, 8)) /\ Strip(Cell(row, 8)) # <<>>
        /\ parse_date_warns(Strip(Cell(row, 8)))

\* CaughtInRow without IndexError
CaughtInRow_ValueErrorOnly == {"ValueError"}

\* except (ValueError, IndexError), line 146
CaughtInRow == {"ValueError", "IndexError"}

\* ------------------------------------------------- analysis and reports

\* TAX_CHANGE_DATE = datetime(2024, 7, 23)
TAX_CHANGE_DATE == [y |-> 2024, m |-> 7, d |-> 23]

\* a < b on datetimes
DateLess(a, b) ==
  \/ a.y < b.y
  \/ a.y = b.y /\ a.m < b.m
  \/ a.y = b.y /\ a.m = b.m /\ a.d < b.d

\* df[df['purchase_date'].notna()]
valid_transactions(frame) ==
  Frame(SelectSeq(frame.rows, LAMBDA r : r.rec.purchase_date # NoDate))

\* redeemed_transactions without the filter on the redemption date
redeemed_transactions_All(frame) == valid_transactions(frame)

\* valid_transactions[valid_transactions['redemption_date'].notna()]
redeemed_transactions(frame) ==
  Frame(SelectSeq(valid_transactions(frame).rows,
                  LAMBDA r : r.rec.redemption_date # NoDate))

\* SplitBefore with <= for <
SplitBefore_Inclusive(frame) ==
  Frame(SelectSeq(redeemed_transactions(frame).rows,
                  LAMBDA r : ~DateLess(TAX_CHANGE_DATE, r.rec.redemption_date)))

\* redeemed_transactions[redeemed_transactions['redemption_date'] < TAX_CHANGE_DATE]
SplitBefore(frame) ==
  Frame(SelectSeq(redeemed_transactions(frame).rows,
                  LAMBDA r : DateLess(r.rec.redemption_date, TAX_CHANGE_DATE)))

\* SplitAfter with > for >=
SplitAfter_Strict(frame) ==
  Frame(SelectSeq(redeemed_transactions(frame).rows,
                  LAMBDA r : DateLess(TAX_CHANGE_DATE, r.rec.redemption_date)))

\* redeemed_transactions[redeemed_transactions['redemption_date'] >= TAX_CHANGE_DATE]
SplitAfter(frame) ==
  Frame(SelectSeq(redeemed_transactions(frame).rows,
                  LAMBDA r : ~DateLess(r.rec.redemption_date, TAX_CHANGE_DATE)))

\* AnalysisSucceeds without the return on no redeemed transactions
AnalysisSucceeds_IgnoresRedeemed(frame) ==
  /\ ~frame.isNone
  /\ Len(valid_transactions(frame).rows) # 0

\* whether analyze_transactions returns True for what read_excel_file returned
AnalysisSucceeds(frame) ==
  /\ ~frame.isNone
  /\ Len(valid_transactions(frame).rows) # 0
  /\ Len(redeemed_transactions(frame).rows) # 0

\* frame[column].sum()
RECURSIVE SumRows(_, _)
SumRows(rows, column) ==
  IF rows = <<>> THEN Zero
  ELSE AddF(Head(rows).rec[column], SumRows(Tail(rows), column))

\* the three rows of one column of the summary: before, after, total
SummaryColumn(before, after, column) ==
  <<SumRows(before.rows, column), SumRows(after.rows, column),
    AddF(SumRows(before.rows, column), SumRows(after.rows, column))>>

generate_summary_report(before, after) ==
  [isNone |-> FALSE,
   transactions_count |->
     <<Len(before.rows), Len(after.rows), Len(before.rows) + Len(after.rows)>>,
   total_purchase_value |-> SummaryColumn(before, after, "purchase_value"),
   total_redemption_value |-> SummaryColumn(before, after, "redemption_value"),
   total_stcg |-> SummaryColumn(before, after, "stcg"),
   total_ltcg |-> SummaryColumn(before, after, "ltcg")]

\* period_df.groupby('fund_name').agg(...): one group per non-null fund name
generate_fund_wise_report(period_df) ==
  LET funds == {period_df.rows[i].rec.fund_name : i \in 1..Len(period_df.rows)} \ {None}
      of(f) == SelectSeq(period_df.rows, LAMBDA r : r.rec.fund_name = f)
  IN [f \in funds |->
        [count |-> Len(of(f)),
         purchase_value |-> SumRows(of(f), "purchase_value"),
         redemption_value |-> SumRows(of(f), "redemption_value"),
         stcg |-> SumRows(of(f), "stcg"),
         ltcg |-> SumRows(of(f), "ltcg"),
         total_gains |-> AddF(SumRows(of(f), "stcg"), SumRows(of(f), "ltcg"))]]

\* a file of export_reports that was not written
NotWritten == [written |-> FALSE, rows |-> <<>>]

Written(rows) == [written |-> TRUE, rows |-> rows]

NoFiles ==
  [summary |-> NoReport, before |-> NotWritten, fund_before |-> NotWritten,
   after |-> NotWritten, fund_after |-> NotWritten]

\* the CSV files export_reports writes, by kind
export_reports(before, after) ==
  [summary |-> generate_summary_report(before, after),
   before |-> IF Len(before.rows) > 0 THEN Written(before.rows) ELSE NotWritten,
   fund_before |->
     IF Len(before.rows) > 0 THEN Written(generate_fund_wise_report(before))
     ELSE NotWritten,
   after |-> IF Len(after.rows) > 0 THEN Written(after.rows) ELSE NotWritten,
   fund_after |->
     IF Len(after.rows) > 0 THEN Written(generate_fund_wise_report(after))
     ELSE NotWritten]

\* ------------------------------------------------------------ the actions

\* the kinds of message the program prints
MSG_NO_PACKAGE == "Missing required package"
MSG_NO_FILE == "Could not find mutual fund data file"
MSG_READ_ERROR == "Error reading Excel file"
MSG_PARSE_ERROR == "Error parsing Excel data"
MSG_NO_TRANSACTIONS == "No valid transactions found in Excel file."
MSG_PARSED == "Successfully parsed transactions from Excel file."
MSG_DATE_WARNING == "Warning: Could not parse date"
MSG_NO_DATA == "Error: Could not read transaction data from Excel file."
MSG_NO_VALID == "No valid transactions with purchase dates found."
MSG_NO_REDEEMED == "No redeemed transactions found."
MSG_FAILED == "Analysis failed"
MSG_ANALYZED == "Analysis completed successfully"
MSG_EXPORTED == "All reports exported successfully"

\* the locals of parse_excel_data and read_excel_file are gone on return
ScanReturns ==
  /\ pc' = "analyze"
  /\ width' = 0
  /\ df' = <<>>
  /\ current_fund' = None
  /\ current_folio' = None
  /\ transactions' = <<>>

Init ==
  /\ excel_file \in SheetKinds
  /\ pc = "main"
  /\ width = 0
  /\ df = <<>>
  /\ current_fund = None
  /\ current_folio = None
  /\ transactions = <<>>
  /\ parsed = NoFrame
  /\ transactions_df = NoFrame
  /\ before_july_23 = NoFrame
  /\ after_july_23 = NoFrame
  /\ printed = NoReport
  /\ files = NoFiles
  /\ result = "running"
  /\ console = {}
  /\ date_pc = "idle"
  /\ date_str = <<>>
  /\ date_ret = NoDate
  /\ date_fmt = ""

\* main, lines 414-442: the package check and the file check, then the analysis
MainStart ==
  /\ pc = "main"
  /\ \E packages_ok \in BOOLEAN, file_exists \in BOOLEAN :
       IF ~packages_ok
       THEN pc' = "done" /\ result' = "False" /\ console' = console \cup {MSG_NO_PACKAGE}
       ELSE IF ~file_exists
       THEN pc' = "done" /\ result' = "False" /\ console' = console \cup {MSG_NO_FILE}
       ELSE pc' = "read_excel_file" /\ result' = result /\ console' = console
  /\ UNCHANGED <<excel_file, width, df, current_fund, current_folio, transactions,
                 parsed, transactions_df, before_july_23, after_july_23, printed,
                 files>>
  /\ UNCHANGED date_vars

\* read_excel_file, lines 46-67: pd.read_excel gives a sheet or raises
ReadExcel ==
  /\ pc = "read_excel_file"
  /\ \E read_ok \in BOOLEAN :
       IF read_ok
       THEN /\ \E w \in Widths(excel_file) : width' = w
            /\ pc' = "scan"
            /\ console' = console
       ELSE /\ width' = width
            /\ pc' = "analyze"
            /\ console' = console \cup {MSG_READ_ERROR}
  /\ UNCHANGED <<excel_file, df, current_fund, current_folio, transactions, parsed,
                 transactions_df, before_july_23, after_july_23, printed, files,
                 result>>
  /\ UNCHANGED date_vars

\* the rows the loop of parse_excel_data may meet next
NextRows ==
  IF pc = "scan" /\ Len(df) < MaxRowsOf(excel_file)
  THEN SheetRows(excel_file, width)
  ELSE {}

\* FundLine that also forgets the folio of the fund before
FundLine_ResetsFolio ==
  /\ \E row \in NextRows :
       /\ IsFundLine(row_str(row))
       /\ df' = Append(df, row)
       /\ current_fund' = FundNameOf(row_str(row))
       /\ current_folio' = None
  /\ UNCHANGED <<excel_file, pc, width, transactions, parsed, transactions_df,
                 before_july_23, after_july_23, printed, files, result, console>>
  /\ UNCHANGED date_vars

\* a fund name line, lines 81-83
FundLine ==
  /\ \E row \in NextRows :
       /\ IsFundLine(row_str(row))
       /\ df' = Append(df, row)
       /\ current_fund' = FundNameOf(row_str(row))
  /\ UNCHANGED <<excel_file, pc, width, current_folio, transactions, parsed,
                 transactions_df, before_july_23, after_july_23, printed, files,
                 result, console>>
  /\ UNCHANGED date_vars

\* FolioLine tested before the fund test: a line with both marks sets the folio
FolioLine_BeforeFundTest ==
  /\ \E row \in NextRows :
       /\ IsFolioLine(row_str(row))
       /\ df' = Append(df, row)
       /\ current_folio' = FolioOf(row_str(row))
  /\ UNCHANGED <<excel_file, pc, width, current_fund, transactions, parsed,
                 transactions_df, before_july_23, after_july_23, printed, files,
                 result, console>>
  /\ UNCHANGED date_vars

\* a folio line, lines 86-88
FolioLine ==
  /\ \E row \in NextRows :
       /\ ~IsFundLine(row_str(row))
       /\ IsFolioLine(row_str(row))
       /\ df' = Append(df, row)
       /\ current_folio' = FolioOf(row_str(row))
  /\ UNCHANGED <<excel_file, pc, width, current_fund, transactions, parsed,
                 transactions_df, before_july_23, after_july_23, printed, files,
                 result, console>>
  /\ UNCHANGED date_vars

\* any other row whose try block ends normally, lines 91-144: a record is
\* appended, or the row is passed over (first cell no number, no purchase date)
TransactionRow ==
  /\ \E row \in NextRows :
       /\ ~IsFundLine(row_str(row))
       /\ ~IsFolioLine(row_str(row))
       /\ TryRow(row, current_fund, current_folio).exc = "none"
       /\ df' = Append(df, row)
       /\ transactions' = transactions \o TryRow(row, current_fund, current_folio).recs
       /\ console' = IF RowWarns(row) THEN console \cup {MSG_DATE_WARNING} ELSE console
  /\ UNCHANGED <<excel_file, pc, width, current_fund, current_folio, parsed,
                 transactions_df, before_july_23, after_july_23, printed, files,
                 result>>
  /\ UNCHANGED date_vars

\* any other row whose try block raises, lines 146-148 and 157-159: caught in
\* the loop the scan goes on, caught by the outer handler it returns None
RowRaises ==
  /\ \E row \in NextRows :
       /\ ~IsFundLine(row_str(row))
       /\ ~IsFolioLine(row_str(row))
       /\ TryRow(row, current_fund, current_folio).exc # "none"
       /\ IF TryRow(row, current_fund, current_folio).exc \in CaughtInRow
          THEN /\ df' = Append(df, row)
               /\ console' =
                    IF RowWarns(row) THEN console \cup {MSG_DATE_WARNING} ELSE console
               /\ UNCHANGED <<pc, width, current_fund, current_folio, transactions,
                              parsed>>
          ELSE /\ ScanReturns
               /\ parsed' = NoFrame
               /\ console' =
                    (IF RowWarns(row) THEN console \cup {MSG_DATE_WARNING} ELSE console)
                    \cup {MSG_PARSE_ERROR}
  /\ UNCHANGED <<excel_file, transactions_df, before_july_23, after_july_23, printed,
                 files, result>>
  /\ UNCHANGED date_vars

\* the end of the loop, lines 150-155: None for no transactions, else the frame
ScanEnd ==
  /\ pc = "scan"
  /\ ScanReturns
  /\ parsed' = IF Len(transactions) = 0 THEN NoFrame ELSE DataFrame(transactions)
  /\ console' =
       console \cup {IF Len(transactions) = 0 THEN MSG_NO_TRANSACTIONS ELSE MSG_PARSED}
  /\ UNCHANGED <<excel_file, transactions_df, before_july_23, after_july_23, printed,
                 files, result>>
  /\ UNCHANGED date_vars

\* the message of the return False analyze_transactions takes, lines 205-230
FailureNotice(frame) ==
  IF frame.isNone THEN MSG_NO_DATA
  ELSE IF Len(valid_transactions(frame).rows) = 0 THEN MSG_NO_VALID
  ELSE MSG_NO_REDEEMED

\* analyze_transactions returns False, lines 205-230; main returns False, 442-444
AnalyzeFails ==
  /\ pc = "analyze"
  /\ ~AnalysisSucceeds(parsed)
  /\ transactions_df' = IF parsed.isNone THEN transactions_df ELSE parsed
  /\ pc' = "done"
  /\ result' = "False"
  /\ console' = console \cup {FailureNotice(parsed), MSG_FAILED}
  /\ UNCHANGED <<excel_file, width, df, current_fund, current_folio, transactions,
                 parsed, before_july_23, after_july_23, printed, files>>
  /\ UNCHANGED date_vars

\* analyze_transactions splits and returns True, lines 209-250; main, 446
AnalyzeSplits ==
  /\ pc = "analyze"
  /\ AnalysisSucceeds(parsed)
  /\ transactions_df' = parsed
  /\ before_july_23' = SplitBefore(parsed)
  /\ after_july_23' = SplitAfter(parsed)
  /\ pc' = "print_analysis_summary"
  /\ console' = console \cup {MSG_ANALYZED}
  /\ UNCHANGED <<excel_file, width, df, current_fund, current_folio, transactions,
                 parsed, printed, files, result>>
  /\ UNCHANGED date_vars

\* print_analysis_summary, lines 355-409, called at line 449
PrintSummary ==
  /\ pc = "print_analysis_summary"
  /\ printed' = generate_summary_report(before_july_23, after_july_23)
  /\ pc' = "export_reports"
  /\ UNCHANGED <<excel_file, width, df, current_fund, current_folio, transactions,
                 parsed, transactions_df, before_july_23, after_july_23, files, result,
                 console>>
  /\ UNCHANGED date_vars

\* export_reports, lines 314-353, called at line 453; main returns True
ExportReports ==
  /\ pc = "export_reports"
  /\ files' = export_reports(before_july_23, after_july_23)
  /\ pc' = "done"
  /\ result' = "True"
  /\ console' = console \cup {MSG_EXPORTED}
  /\ UNCHANGED <<excel_file, width, df, current_fund, current_folio, transactions,
                 parsed, transactions_df, before_july_23, after_july_23, printed>>
  /\ UNCHANGED date_vars

Next ==
  \/ MainStart
  \/ ReadExcel
  \/ FundLine
  \/ FolioLine
  \/ TransactionRow
  \/ RowRaises
  \/ ScanEnd
  \/ AnalyzeFails
  \/ AnalyzeSplits
  \/ PrintSummary
  \/ ExportReports

Spec == Init /\ [][Next]_vars

\* ------------------------------------------------ parse_date on its own

\* the texts parse_date is called with
DayTexts == {<<"0", "9">>, <<"9">>, <<"3", "1">>, <<"0", "0">>}

MonthTexts == {<<"0", "8">>, <<"8">>, <<"0", "2">>, <<"1", "3">>}

YearTexts == {<<"2", "0", "2", "3">>, <<"2", "4">>}

MonthNames == {"Aug", "August", "May", "Feb", "Total"}

NamedDateTexts ==
  {<<n, " ">> \o d \o <<",", " ">> \o y :
     n \in MonthNames, d \in DayTexts, y \in YearTexts}

NumericDateTexts ==
  {d \o <<sep>> \o m \o <<sep>> \o y :
     sep \in {"/", "-"}, d \in DayTexts, m \in MonthTexts, y \in YearTexts}
  \cup
  {y \o <<sep>> \o m \o <<sep>> \o d :
     sep \in {"/", "-"}, d \in DayTexts, m \in MonthTexts, y \in YearTexts}

DateTexts ==
  LET core == NamedDateTexts \cup NumericDateTexts \cup {<<>>, <<"-">>, <<"n", "/", "a">>}
  IN core \cup {<<QUOTE>> \o t \o <<QUOTE>> : t \in core}
          \cup {<<" ">> \o t \o <<" ">> : t \in core}

DateInit ==
  /\ excel_file = "statement"
  /\ pc = "main"
  /\ width = 0
  /\ df = <<>>
  /\ current_fund = None
  /\ current_folio = None
  /\ transactions = <<>>
  /\ parsed = NoFrame
  /\ transactions_df = NoFrame
  /\ before_july_23 = NoFrame
  /\ after_july_23 = NoFrame
  /\ printed = NoReport
  /\ files = NoFiles
  /\ result = "running"
  /\ console = {}
  /\ date_pc = "called"
  /\ date_str \in DateTexts
  /\ date_ret = NoDate
  /\ date_fmt = ""

\* parse_date returns None at once, lines 163-164
ParseDateBlank ==
  /\ date_pc = "called"
  /\ DateIsBlank(date_str)
  /\ date_pc' = "returned"
  /\ date_ret' = parse_date(date_str)
  /\ UNCHANGED <<date_str, date_fmt, console>>
  /\ UNCHANGED run_vars

\* parse_date strips the text and runs its loop, lines 166-184: it returns
\* from the loop, or the loop runs out and it warns and returns None
ParseDateFormats ==
  /\ date_pc = "called"
  /\ ~DateIsBlank(date_str)
  /\ date_pc' = "returned"
  /\ date_ret' = parse_date(date_str)
  /\ date_fmt' = TryFormats(DateClean(date_str), 1).fmt
  /\ console' =
       IF parse_date_warns(date_str) THEN console \cup {MSG_DATE_WARNING} ELSE console
  /\ UNCHANGED date_str
  /\ UNCHANGED run_vars

DateNext == ParseDateBlank \/ ParseDateFormats

DateSpec == DateInit /\ [][DateNext]_vars

\* ---------------------------------------------- what the scan should give

Min(S) == CHOOSE x \in S : \A y \in S : x <= y

Max(S) == CHOOSE x \in S : \A y \in S : x >= y

\* the row text holds '[ISIN:' and '] ('
HasFundMarks(row) ==
  Contains(row_str(row), ISIN_MARK) /\ Contains(row_str(row), PAREN_MARK)

\* the row text holds 'Folio No:'
HasFolioMark(row) == Contains(row_str(row), FOLIO_MARK)

\* the first cell is present and all digits
DigitLed(row) == Len(row) >= 1 /\ row[1] # NaN /\ IsDigitStr(Strip(row[1]))

\* the text before the first '[ISIN:' from its first to its last non-blank token
TrimmedBeforeIsin(rs) ==
  LET n == Min({i \in 1..Len(rs) : rs[i] = "[ISIN:"})
      body == {j \in 1..(n - 1) : rs[j] # " "}
  IN IF body = {} THEN <<>> ELSE SubSeq(rs, Min(body), Max(body))

\* cell 2 is present and some format reads it once blanks and quotes are off
PurchaseDateParses(row) ==
  /\ Len(row) >= 3
  /\ row[3] # NaN
  /\ \E i \in 1..Len(formats) : Strptime(DateClean(row[3]), formats[i]) # NoDate

\* cell k is beyond the row, missing, blank, or a number
NumberCellOk(row, k, text) ==
  Len(row) <= k \/ row[k + 1] = NaN \/ Strip(row[k + 1]) = <<>> \/ Float(text) # FloatError

\* units, purchase_nav and redemption_nav are numbers where present
OtherFieldsParse(row) ==
  /\ Len(row) >= 2 /\ NumberCellOk(row, 1, Remove(row[2], ","))
  /\ Len(row) <= 4 \/ NumberCellOk(row, 4, row[5])
  /\ Len(row) <= 10 \/ NumberCellOk(row, 10, row[11])

\* the rows of d that are digit-led, no header, dated and otherwise parseable
RecordRows(d) ==
  {i \in 1..Len(d) :
     /\ ~HasFundMarks(d[i]) /\ ~HasFolioMark(d[i])
     /\ DigitLed(d[i]) /\ PurchaseDateParses(d[i]) /\ OtherFieldsParse(d[i])}

\* the row of d the k-th record comes from
SourceRow(d, k) ==
  CHOOSE i \in RecordRows(d) : Cardinality({j \in RecordRows(d) : j <= i}) = k

\* the fund name in force at row i of d: that of the last fund line above it
FundInForce(d, i) ==
  LET above == {j \in 1..(i - 1) : HasFundMarks(d[j])}
  IN IF above = {} THEN None ELSE TrimmedBeforeIsin(row_str(d[Max(above)]))

\* ------------------------------------------------------------ the claims

\* C1: during the scan the current fund is the trimmed text before '[ISIN:' of
\* the last fund line read (null before any), and every record carries the fund
\* name in force at its row: that of the last fund line above it, null if none.
C1_FundNameInherited ==
  pc = "scan" =>
    /\ current_fund = FundInForce(df, Len(df) + 1)
    /\ Len(transactions) = Cardinality(RecordRows(df))
    /\ \A k \in 1..Len(transactions) :
         transactions[k].fund_name = FundInForce(df, SourceRow(df, k))

\* a record read before any fund line, a fund line, a record read after it
C1_Witness ==
  /\ pc = "scan"
  /\ Len(df) = 3
  /\ HasFundMarks(df[2])
  /\ Len(transactions) = 2
  /\ transactions[1].fund_name = None
  /\ transactions[2].fund_name = <<"Fund", " ", "A">>

\* C2: every record of the scan and of the frames made from it has a purchase
\* date, and the records are as many as the digit-led rows that are no header
\* line, have a purchase date some format reads and numbers in their number cells.
C2_PurchaseDateRequired ==
  /\ pc = "scan" =>
       /\ \A k \in 1..Len(transactions) : transactions[k].purchase_date # NoDate
       /\ Len(transactions) = Cardinality(RecordRows(df))
  /\ \A frame \in {parsed, transactions_df} :
       \A k \in 1..Len(frame.rows) : frame.rows[k].rec.purchase_date # NoDate

\* a digit-led row whose cell 2 no format reads gave no record, another row did
C2_Witness ==
  /\ pc = "scan"
  /\ Len(df) = 2
  /\ Len(transactions) = 1
  /\ \E i \in 1..2 :
       /\ DigitLed(df[i]) /\ ~HasFundMarks(df[i]) /\ ~HasFolioMark(df[i])
       /\ Len(df[i]) >= 3 /\ df[i][3] = T_13_13_2023

\* the rows of d that are digit-led, no header line, and dated
DatedDataRows(d) ==
  {i \in 1..Len(d) :
     /\ ~HasFundMarks(d[i]) /\ ~HasFolioMark(d[i])
     /\ DigitLed(d[i]) /\ PurchaseDateParses(d[i])}

\* the k-th of them
DatedDataRow(d, k) ==
  CHOOSE i \in DatedDataRows(d) : Cardinality({j \in DatedDataRows(d) : j <= i}) = k

\* cell k holds a text that is no number
BadNumber(row, k, text) ==
  Len(row) > k /\ row[k + 1] # NaN /\ Strip(row[k + 1]) # <<>> /\ Float(text) = FloatError

\* C3: every digit-led, dated row that is no header line gives a record, and a
\* number cell of it (units, purchase_nav, redemption_nav) that holds no number
\* gives the field 0.0.
C3_BadFieldDefaults ==
  pc = "scan" =>
    /\ Len(transactions) = Cardinality(DatedDataRows(df))
    /\ \A k \in 1..Len(transactions) :
         LET row == df[DatedDataRow(df, k)]
         IN /\ BadNumber(row, 1, Remove(row[2], ",")) => transactions[k].units = Zero
            /\ BadNumber(row, 4, row[5]) => transactions[k].purchase_nav = Zero
            /\ BadNumber(row, 10, row[11]) => transactions[k].redemption_nav = Zero

\* the row the loop has just read, in a step of the loop
LoopStep == pc = "scan" /\ pc' = "scan" /\ Len(df') = Len(df) + 1

\* C4: a row is treated as exactly one of fund line, folio line, transaction
\* candidate and skipped row, in that order of priority: a row with the fund
\* marks sets the fund and neither sets a folio nor gives a record, whatever
\* else it holds; a row with the folio mark and without the fund marks sets the
\* folio and gives no record; a digit-led row with neither gives at most one
\* record and any other row gives none, both leaving fund and folio alone.
C4_RowClassesExclusive ==
  [][LoopStep =>
       LET row == df'[Len(df')]
       IN /\ HasFundMarks(row) =>
               /\ current_fund' = TrimmedBeforeIsin(row_str(row))
               /\ current_folio' = current_folio
               /\ transactions' = transactions
          /\ (~HasFundMarks(row) /\ HasFolioMark(row)) =>
               /\ current_folio' = FolioOf(row_str(row))
               /\ current_fund' = current_fund
               /\ transactions' = transactions
          /\ (~HasFundMarks(row) /\ ~HasFolioMark(row) /\ DigitLed(row)) =>
               /\ current_fund' = current_fund
               /\ current_folio' = current_folio
               /\ Len(transactions') \in {Len(transactions), Len(transactions) + 1}
               /\ SubSeq(transactions', 1, Len(transactions)) = transactions
          /\ (~HasFundMarks(row) /\ ~HasFolioMark(row) /\ ~DigitLed(row)) =>
               /\ current_fund' = current_fund
               /\ current_folio' = current_folio
               /\ transactions' = transactions]_vars

\* a digit-led, dated row with the fund marks and the folio mark was read, then a
\* digit-led, dated row with the folio mark: a fund, a folio, no record
C4_Witness ==
  /\ pc = "scan"
  /\ Len(df) = 2
  /\ HasFundMarks(df[1]) /\ HasFolioMark(df[1]) /\ DigitLed(df[1])
  /\ PurchaseDateParses(df[1])
  /\ ~HasFundMarks(df[2]) /\ HasFolioMark(df[2]) /\ DigitLed(df[2])
  /\ PurchaseDateParses(df[2])
  /\ current_fund # None
  /\ current_folio = <<"8">>
  /\ transactions = <<>>

\* the folio in force after the rows of d: that of the last folio line
FolioInForce(d) ==
  LET lines == {j \in 1..Len(d) : ~HasFundMarks(d[j]) /\ HasFolioMark(d[j])}
  IN IF lines = {} THEN None ELSE FolioOf(row_str(d[Max(lines)]))

\* the fund in force after the rows of d: that of the last fund line
FundAfter(d) ==
  LET lines == {j \in 1..Len(d) : HasFundMarks(d[j])}
  IN IF lines = {} THEN None ELSE FundNameOf(row_str(d[Max(lines)]))

\* C5: the scan context depends on the header lines alone: the current fund is
\* that of the last fund line and the current folio that of the last folio
\* line, whatever rows came between and after them; so a fund line leaves the
\* folio as it is, a folio line the fund, and any other row both.
C5_ContextOnlyFromHeaders ==
  pc = "scan" =>
    /\ current_fund = FundAfter(df)
    /\ current_folio = FolioInForce(df)

\* a folio line, then a fund line, then a transaction row: both still in force
C5_Witness ==
  /\ pc = "scan"
  /\ Len(df) = 3
  /\ ~HasFundMarks(df[1]) /\ HasFolioMark(df[1])
  /\ HasFundMarks(df[2])
  /\ Len(transactions) = 1
  /\ current_folio = <<"9", "9", "9">>
  /\ current_fund = <<"Fund", " ", "A">>
  /\ transactions[1].folio_number = <<"9", "9", "9">>

\* the column each field guarded by len(row) > k is read from
TailFields ==
  [purchase_value |-> 3, purchase_nav |-> 4, redemption_value |-> 9,
   redemption_nav |-> 10, stcg |-> 11, ltcg |-> 12]

\* C6: a sheet narrower than 13 columns never makes parse_excel_data fail: no
\* error leaves the loop, and in every record the fields whose column is at or
\* beyond the width have their default, 0.0, and null for redemption_date.
C6_ShortRowsDefault ==
  /\ MSG_PARSE_ERROR \notin console
  /\ (pc = "scan" /\ width < NCols) =>
       \A k \in 1..Len(transactions) :
         /\ \A f \in DOMAIN TailFields :
              TailFields[f] >= width => transactions[k][f] = Zero
         /\ 8 >= width => transactions[k].redemption_date = NoDate

\* a sheet of 4 to 8 columns: a digit-led row gave a record with a purchase
\* value, and the loop read the row after it
C6_Witness ==
  /\ pc = "scan"
  /\ width \in 4..8
  /\ Len(df) = 2
  /\ DigitLed(df[1])
  /\ Len(transactions) >= 1
  /\ transactions[1].purchase_value # Zero
  /\ transactions[1].redemption_date = NoDate

\* the index labels of a frame
Labels(frame) == {frame.rows[i].index : i \in 1..Len(frame.rows)}

\* the rows of a frame that have a purchase date and a redemption date
RealizedRows(frame) ==
  SelectSeq(frame.rows,
            LAMBDA r : r.rec.purchase_date # NoDate /\ r.rec.redemption_date # NoDate)

\* analyze_transactions has returned True
Analyzed == ~before_july_23.isNone /\ ~after_july_23.isNone

\* C7: once analyze_transactions has succeeded, the before and the after set
\* share no record, hold together exactly the realized records, their counts
\* add up to the number of realized records, and the Total row of every
\* summary report made has that number as its count.
C7_PartitionComplete ==
  Analyzed =>
    LET realized == Labels(Frame(RealizedRows(transactions_df)))
    IN /\ Labels(before_july_23) \cap Labels(after_july_23) = {}
       /\ Labels(before_july_23) \cup Labels(after_july_23) = realized
       /\ Len(before_july_23.rows) + Len(after_july_23.rows) = Cardinality(realized)
       /\ \A report \in {printed, files.summary} :
            ~report.isNone => report.transactions_count[3] = Cardinality(realized)

\* a run that exported: one record before the cutover, two on or after it
C7_Witness ==
  /\ pc = "done"
  /\ result = "True"
  /\ Len(before_july_23.rows) = 1
  /\ Len(after_july_23.rows) = 2
  /\ files.summary.transactions_count = <<1, 2, 3>>

\* the rows of a frame without redemption date
UnrealizedRows(frame) ==
  SelectSeq(frame.rows, LAMBDA r : r.rec.redemption_date = NoDate)

\* the realized rows of a frame of one fund on one side of the cutover
RealizedOf(frame, fund, before) ==
  SelectSeq(RealizedRows(frame),
            LAMBDA r : /\ r.rec.fund_name = fund
                       /\ DateLess(r.rec.redemption_date, TAX_CHANGE_DATE) = before)

\* a per-fund report counts the realized records of each fund on its side
FundReportRealized(file, before) ==
  file.written =>
    \A f \in DOMAIN file.rows :
      /\ file.rows[f].count = Len(RealizedOf(transactions_df, f, before))
      /\ file.rows[f].stcg = SumRows(RealizedOf(transactions_df, f, before), "stcg")

\* C8: a record without redemption date is in neither the before nor the after
\* set, and the counts and sums of the summary and per-fund reports are those
\* of the realized records alone.
C8_UnrealizedExcluded ==
  Analyzed =>
    /\ \A i \in 1..Len(UnrealizedRows(transactions_df)) :
         UnrealizedRows(transactions_df)[i].index
           \notin Labels(before_july_23) \cup Labels(after_july_23)
    /\ \A report \in {printed, files.summary} :
         ~report.isNone =>
           /\ report.transactions_count[3] = Len(RealizedRows(transactions_df))
           /\ \A c \in {"purchase_value", "redemption_value", "stcg", "ltcg"} :
                report["total_" \o c][3] = SumRows(RealizedRows(transactions_df), c)
    /\ FundReportRealized(files.fund_before, TRUE)
    /\ FundReportRealized(files.fund_after, FALSE)

\* a run that exported although the scan built a record without redemption date
C8_Witness ==
  /\ pc = "done"
  /\ result = "True"
  /\ Len(UnrealizedRows(transactions_df)) >= 1
  /\ UnrealizedRows(transactions_df)[1].rec.purchase_value # Zero
  /\ files.summary.transactions_count[3] < Len(transactions_df.rows)
  /\ files.fund_before.written

\* the formats in the order parse_date is to try them
FormatOrder == <<"%b %d, %Y", "%B %d, %Y", "%d/%m/%Y", "%Y-%m-%d", "%d-%m-%Y">>

\* the formats of the order that read a text once blanks and quotes are off
FormatsReading(text) ==
  {i \in 1..Len(FormatOrder) : Strptime(DateClean(text), FormatOrder[i]) # NoDate}

\* C9: parse_date returns null, without a warning, for the empty text and for
\* "-"; else the reading of the first format of the fixed order that reads the
\* text, returned from the loop at that format and without a warning; else,
\* when no format reads it, null after a warning.
C9_FirstFormatWins ==
  date_pc = "returned" =>
    IF date_str = <<>> \/ Strip(date_str) = <<"-">>
    THEN date_ret = NoDate /\ date_fmt = "" /\ MSG_DATE_WARNING \notin console
    ELSE IF FormatsReading(date_str) = {}
    THEN date_ret = NoDate /\ date_fmt = "" /\ MSG_DATE_WARNING \in console
    ELSE /\ date_fmt = FormatOrder[Min(FormatsReading(date_str))]
         /\ date_ret = Strptime(DateClean(date_str), date_fmt)
         /\ MSG_DATE_WARNING \notin console

\* a text two formats read ("May 09, 2023") returned at the earlier one
C9_Witness ==
  /\ date_pc = "returned"
  /\ Cardinality(FormatsReading(date_str)) = 2
  /\ date_fmt = "%b %d, %Y"
  /\ date_ret = [y |-> 2023, m |-> 5, d |-> 9]

\* no report was printed and no file written
NothingReported ==
  /\ printed.isNone
  /\ files.summary.isNone
  /\ \A f \in {"before", "fund_before", "after", "fund_after"} : ~files[f].written

\* the scan gave no record, or none with a redemption date
NothingToDo ==
  \/ MSG_NO_TRANSACTIONS \in console
  \/ ~parsed.isNone /\ \A i \in 1..Len(parsed.rows) : parsed.rows[i].rec.redemption_date = NoDate

\* C10: a run whose scan gave no record, or none redeemed, ends with
\* analyze_transactions failing, main returning False after the notice, and
\* nothing printed or written; and in every run a report is printed or a file
\* written only after analyze_transactions returned True.
C10_NoDataNoExport ==
  /\ (pc = "done" /\ NothingToDo) =>
       /\ result = "False"
       /\ MSG_FAILED \in console
       /\ {MSG_NO_DATA, MSG_NO_REDEEMED} \cap console # {}
       /\ ~Analyzed
  /\ NothingToDo => NothingReported
  /\ ~NothingReported => (Analyzed /\ MSG_ANALYZED \in console)

\* a run that ended on records none of which was redeemed
C10_Witness ==
  /\ pc = "done"
  /\ result = "False"
  /\ ~parsed.isNone
  /\ Len(parsed.rows) = 2
  /\ MSG_NO_REDEEMED \in console
  /\ NothingReported

\* a date as the number yyyymmdd
DateNumber(date) == date.y * 10000 + date.m * 100 + date.d

\* the realized records of a frame, as a set
RealizedSet(frame) ==
  {RealizedRows(frame)[i] : i \in 1..Len(RealizedRows(frame))}

\* the index labels of the realized records redeemed before 2024-07-23
RedeemedEarlier(frame) ==
  {r.index : r \in {x \in RealizedSet(frame) :
                      DateNumber(x.rec.redemption_date) < 20240723}}

\* the index labels of the realized records redeemed on 2024-07-23 or later
RedeemedOnOrLater(frame) ==
  {r.index : r \in {x \in RealizedSet(frame) :
                      DateNumber(x.rec.redemption_date) >= 20240723}}

\* the index labels of the realized records redeemed on 2024-07-23 itself
RedeemedOnCutover(frame) ==
  {r.index : r \in {x \in RealizedSet(frame) :
                      DateNumber(x.rec.redemption_date) = 20240723}}

\* C11: once analyze_transactions has succeeded, the before set holds exactly
\* the realized records redeemed strictly earlier than 2024-07-23 and the after
\* set exactly those redeemed on that day or later; a record redeemed on
\* 2024-07-23 itself is in the after set and not in the before set.
C11_CutoverDayIsAfter ==
  Analyzed =>
    /\ Labels(before_july_23) = RedeemedEarlier(transactions_df)
    /\ Labels(after_july_23) = RedeemedOnOrLater(transactions_df)
    /\ RedeemedOnCutover(transactions_df) \subseteq Labels(after_july_23)
    /\ RedeemedOnCutover(transactions_df) \cap Labels(before_july_23) = {}

\* a run that exported a record redeemed on 2024-07-23 in the after set, next
\* to a record redeemed earlier in the before set
C11_Witness ==
  /\ pc = "done"
  /\ result = "True"
  /\ RedeemedOnCutover(transactions_df) # {}
  /\ RedeemedOnCutover(transactions_df) \subseteq Labels(after_july_23)
  /\ Len(before_july_23.rows) >= 1
  /\ RedeemedOnCutover(transactions_df) \cap Labels(before_july_23) = {}

====
